---------------------------- MODULE Spec2Model ----------------------------
(***************************************************************************)
(* Model of the streaming country matcher of src/main.py: the vocabulary   *)
(* index built by load_and_build_automaton, and per websocket session the  *)
(* coordinator (websocket_endpoint), the producer (transcription_loop) and *)
(* the consumer (matcher_loop) running on one cooperative event loop.      *)
(*                                                                         *)
(* Text is modelled character by character: a word is a sequence of        *)
(* one-character strings, and text_to_search is the words joined by " ".   *)
(* A task is only ever observed at one of its await points; what a task    *)
(* does between two awaits is one action.                                  *)
(***************************************************************************)
EXTENDS Naturals, Integers, Sequences, FiniteSets

(***************************************************************************)
(* Bounds of the model.                                                    *)
(***************************************************************************)
\* Stand-in for maxlen=500 of the deque (src/main.py:154), scaled down so
\* that overflow happens within the explored runs.
Capacity == 2
\* Words one session's producer appends in total.
MaxAppended == 3
\* Words one producer tick appends.
MaxBatch == 2
\* Words one session's producer appends in total when two sessions are live.
MaxAppendedMulti == 1
\* Bytes waiting in audio_buffer.
MaxAudio == 2
\* Lines of the vocabulary file the read loop is followed over.
MaxLines == 3
Sessions == {1, 2}

(***************************************************************************)
(* Words and vocabulary files.  The state holds words and terms by name;   *)
(* Spell gives the characters the matcher scans.                           *)
(***************************************************************************)
Spell(w) ==
    CASE w = "chad" -> <<"c", "h", "a", "d">>
      [] w = "uk" -> <<"u", "k">>
      [] w = "united" -> <<"u", "n", "i", "t", "e", "d">>
      [] w = "kingdom" -> <<"k", "i", "n", "g", "d", "o", "m">>
      [] w = "united kingdom" ->
            <<"u", "n", "i", "t", "e", "d", " ", "k", "i", "n", "g", "d", "o", "m">>

\* What clean_text.split() can yield for one segment word.
Words == {"chad", "uk", "united", "kingdom"}
\* The one word spoken when two sessions are live.
WordsMulti == {"chad"}

\* The countries.txt files the process may be started with:
\*  0: no file at all;
\*  1: two countries and the alternate "uk -> united kingdom"
\*     (CUSTOM_ABBREVIATIONS of src/country_extractor.py);
\*  2: the same, with "uk" also listed under [COUNTRIES];
\*  3: a file with no country and no alternate (the two headers alone);
\*  4: a file that exists and cannot be read;
\*  5: a file of any lines, which the read loop is followed over line by line.
\* VocabFiles are those the startup is compared over: missing, well-formed,
\* empty and unreadable.
VocabFiles == {0, 1, 3, 4}

\* What open() and the read loop do with the file: FileNotFoundError,
\* another OSError or UnicodeDecodeError, or the lines.
FileStatus(v) ==
    IF v = 0 THEN "missing" ELSE IF v = 4 THEN "unreadable" ELSE "ok"

country_names(v) ==
    IF v = 1 THEN {"chad", "united kingdom"}
    ELSE IF v = 2 THEN {"chad", "uk", "united kingdom"}
    ELSE {}

alternates(v) ==
    IF v \in {1, 2} THEN [abbr \in {"uk"} |-> "united kingdom"] ELSE <<>>

\* Mutant of BuildAutomaton: the alternates are never added.
BuildAutomatonCountriesOnly(names, alts) == [p \in names |-> p]

\* Mutant of BuildAutomaton: an alternate is stored with itself as value.
BuildAutomatonKeyAsValue(names, alts) == [p \in names \cup DOMAIN alts |-> p]

\* Mutant of BuildAutomaton: the alternates are added first and the
\* countries after them, so that a country name replaces an equal alternate.
BuildAutomatonCountriesLast(names, alts) ==
    [p \in names \cup DOMAIN alts |-> IF p \in names THEN p ELSE alts[p]]

\* A.add_word(name, name) for every country, then A.add_word(abbr, full_name)
\* for every alternate: a later add_word of the same key replaces the value.
BuildAutomaton(names, alts) ==
    [p \in names \cup DOMAIN alts |-> IF p \in DOMAIN alts THEN alts[p] ELSE p]

load_and_build_automaton(v) == BuildAutomaton(country_names(v), alternates(v))

\* The module-level call of load_and_build_automaton, as the process sees
\* it: FileNotFoundError is caught and answered with exit(1); any other
\* error of open() or of the read loop is not caught and ends the import of
\* the module; otherwise the automaton is built from whatever was read, an
\* empty vocabulary included, and the application is served.
Startup(v) ==
    IF v = 5 THEN "loading"
    ELSE IF FileStatus(v) = "ok" THEN "serving" ELSE "exited"

\* Automaton.iter raises AttributeError when no word was ever added:
\* make_automaton() leaves an empty trie as it is, and iter() accepts only a
\* built automaton.
IterRaises(Aut) == DOMAIN Aut = {}

(***************************************************************************)
(* The read loop of load_and_build_automaton.  A line is a sequence of     *)
(* one-character strings.                                                  *)
(***************************************************************************)
CountriesHeader == <<"[", "C", "O", "U", "N", "T", "R", "I", "E", "S", "]">>

AlternatesHeader == <<"[", "A", "L", "T", "E", "R", "N", "A", "T", "E", "S", "]">>

\* The lines the file can hold: empty and blank ones, the headers (bare and
\* padded), names, and lines with no, one or two "->", padded or not.
Lines ==
    { <<>>,
      <<" ", "\n">>,
      CountriesHeader,
      <<" ">> \o AlternatesHeader \o <<"\n">>,
      <<"a">>,
      <<" ", "b", " ", "a", "\n">>,
      <<"a", "-", ">", "b">>,
      <<" ", "a", " ", "-", ">", " ", "b", " ", "a", "\n">>,
      <<"b", "-", ">", "a">>,
      <<"a", "-", ">", "b", "-", ">", "a">>,
      <<"a", "-", "b">>,
      <<"a", ">", "-", "b">>,
      <<"-", ">">> }

\* What str.strip() removes.
Whitespace == {" ", "\t", "\n"}

RECURSIVE LStrip(_)
LStrip(s) ==
    IF s # <<>> /\ Head(s) \in Whitespace THEN LStrip(Tail(s)) ELSE s

RECURSIVE RStrip(_)
RStrip(s) ==
    IF s # <<>> /\ s[Len(s)] \in Whitespace
    THEN RStrip(SubSeq(s, 1, Len(s) - 1))
    ELSE s

\* line.strip()
Strip(s) == RStrip(LStrip(s))

RECURSIVE Find(_, _)
\* line.find("->") from 1-based position k on; 0 when there is none.
Find(s, k) ==
    IF k + 1 > Len(s) THEN 0
    ELSE IF s[k] = "-" /\ s[k + 1] = ">" THEN k
    ELSE Find(s, k + 1)

RECURSIVE RFind(_, _)
\* line.rfind("->") from 1-based position k down; 0 when there is none.
RFind(s, k) ==
    IF k < 1 THEN 0
    ELSE IF s[k] = "-" /\ s[k + 1] = ">" THEN k
    ELSE RFind(s, k - 1)

\* Mutant of SplitArrow: the line is cut at its last "->".
SplitArrowAtLast(line) ==
    LET k == RFind(line, Len(line) - 1)
    IN [abbr |-> Strip(SubSeq(line, 1, k - 1)),
        full_name |-> Strip(SubSeq(line, k + 2, Len(line)))]

\* abbr, full_name = [part.strip() for part in line.split("->", 1)]
SplitArrow(line) ==
    LET k == Find(line, 1)
    IN [abbr |-> Strip(SubSeq(line, 1, k - 1)),
        full_name |-> Strip(SubSeq(line, k + 2, Len(line)))]

\* alternates[abbr] = full_name
SetItem(d, key, value) ==
    [x \in DOMAIN d \cup {key} |-> IF x = key THEN value ELSE d[x]]

\* The locals of the read loop before its first line.
ParserStart ==
    [current_section |-> "None", country_names |-> {}, alternates |-> <<>>]

\* The body of "for line in f" for one line.
ParseLine(st, raw) ==
    LET line == Strip(raw)
    IN IF line = <<>> THEN st
       ELSE IF line = CountriesHeader THEN [st EXCEPT !.current_section = "countries"]
       ELSE IF line = AlternatesHeader THEN [st EXCEPT !.current_section = "alternates"]
       ELSE IF st.current_section = "countries"
       THEN [st EXCEPT !.country_names = @ \cup {line}]
       ELSE IF st.current_section = "alternates" /\ Find(line, 1) # 0
       THEN [st EXCEPT !.alternates =
                SetItem(@, SplitArrow(line).abbr, SplitArrow(line).full_name)]
       ELSE st

(***************************************************************************)
(* Pure helpers.                                                           *)
(***************************************************************************)
Min(a, b) == IF a < b THEN a ELSE b

RECURSIVE Join(_)
\* " ".join(word_stream)
Join(ws) ==
    IF ws = <<>> THEN <<>>
    ELSE IF Len(ws) = 1 THEN Spell(ws[1])
    ELSE Spell(ws[1]) \o <<" ">> \o Join(Tail(ws))

RECURSIVE CountSpaces(_)
\* s.count(' ')
CountSpaces(s) ==
    IF s = <<>> THEN 0
    ELSE (IF Head(s) = " " THEN 1 ELSE 0) + CountSpaces(Tail(s))

\* Pattern p occurs in text with its last character at 0-based index e.
EndsAt(text, p, e) ==
    /\ Len(Spell(p)) <= e + 1
    /\ SubSeq(text, e + 2 - Len(Spell(p)), e + 1) = Spell(p)

RECURSIVE ByLengthDesc(_)
\* The patterns of a set, longest first (those ending at one index are
\* suffixes of one another, so their lengths differ).
ByLengthDesc(ps) ==
    IF ps = {} THEN <<>>
    ELSE LET p == CHOOSE q \in ps : \A r \in ps : Len(Spell(r)) <= Len(Spell(q))
         IN <<p>> \o ByLengthDesc(ps \ {p})

RECURSIVE IterFrom(_, _, _)
IterFrom(Aut, text, e) ==
    IF e >= Len(text) THEN <<>>
    ELSE LET here == ByLengthDesc({p \in DOMAIN Aut : EndsAt(text, p, e)})
         IN [k \in 1..Len(here) |->
                [end_index |-> e, pattern |-> here[k], canonical_name |-> Aut[here[k]]]]
            \o IterFrom(Aut, text, e + 1)

\* Mutant of Iter: the occurrences come latest first.
IterLatestFirst(Aut, text) ==
    LET ms == IterFrom(Aut, text, 0)
    IN [k \in 1..Len(ms) |-> ms[Len(ms) + 1 - k]]

\* A.iter(text_to_search): every occurrence of every pattern, as
\* (end_index, value), in non-decreasing end_index order.
Iter(Aut, text) == IterFrom(Aut, text, 0)

\* Mutant of Extend: a deque without maxlen.
ExtendUnbounded(ws, new_words) == ws \o new_words

\* deque(maxlen=Capacity).extend(new_words): append at the tail, dropping
\* from the head whatever exceeds maxlen.
Extend(ws, new_words) ==
    LET all == ws \o new_words
    IN IF Len(all) > Capacity
       THEN SubSeq(all, Len(all) - Capacity + 1, Len(all))
       ELSE all

\* Mutant of NumWordsToRemove: the separators are counted and the "+ 1" is
\* missing.
NumWordsToRemoveSeparators(text, last) == CountSpaces(SubSeq(text, 1, last))

\* text_to_search[:last_match_end_index].count(' ') + 1
NumWordsToRemove(text, last) == CountSpaces(SubSeq(text, 1, last)) + 1

\* Mutant of PopLeft: word_stream.pop(), which takes from the tail.
PopRight(ws, n) == SubSeq(ws, 1, Len(ws) - Min(n, Len(ws)))

\* for _ in range(n): if word_stream: word_stream.popleft()
PopLeft(ws, n) == SubSeq(ws, Min(n, Len(ws)) + 1, Len(ws))

\* Mutant of NotGuessed: the membership test is missing.
NotGuessedAlways(canonical_name, guessed) == TRUE

\* "if canonical_name not in guessed_countries"
NotGuessed(canonical_name, guessed) == canonical_name \notin guessed

\* np.frombuffer(audio_buffer, dtype=np.int16) raises ValueError unless the
\* buffer holds whole 2-byte samples.
FromBufferOk(buf) == Len(buf) % 2 = 0

\* One little-endian int16 sample.
Int16(lo, hi) ==
    LET u == lo + 256 * hi IN IF u >= 32768 THEN u - 65536 ELSE u

\* np.frombuffer(audio_buffer, dtype=np.int16): one sample per two bytes, in
\* order (the division by 32768.0 that follows scales every sample alike and
\* is left out).
FromBuffer(buf) ==
    [k \in 1..(Len(buf) \div 2) |-> Int16(buf[2 * k - 1], buf[2 * k])]

\* Mutant of Skips: the producer transcribes on every tick.
SkipsNever(buf) == FALSE

\* "if not audio_buffer: continue"
Skips(buf) == buf = <<>>

\* The raw audio frames receive_bytes() can deliver (arbitrary chunking).
Chunks == {<<0>>, <<0, 0>>}

(***************************************************************************)
(* State.  Every per-session variable is a function over the session slots.*)
(***************************************************************************)
VARIABLES
    vocab,                 \* which countries.txt the process was started with
    process,               \* "loading" in the read loop, then "serving" or "exited"
    parser,                \* locals of the read loop: current_section, country_names, alternates
    lines_read,            \* history: the lines the read loop has taken from the file
    slots,                 \* the session slots clients connect to in this run
    coordinator,           \* websocket_endpoint: "none", "recv", "gather", "closed"
    transcription_task,    \* "sleep", "failed", "cancelled"
    matcher_task,          \* "sleep", "send", "failed", "cancelled"
    audio_buffer,          \* bytearray of the session
    audio_np,              \* producer local: the samples last handed to model.transcribe
    word_stream,           \* deque(maxlen) of the session
    guessed_countries,     \* set of the session
    text_to_search,        \* matcher local: the snapshot being scanned (its words; Join gives the text)
    match_pos,             \* matcher local: index in A.iter(...) of the occurrence being sent
    last_match_end_index,  \* matcher local
    snap_base,             \* history: offset of text_to_search in the joined appended words
    sent,                  \* history: the guess events sent on the websocket, in order
    appended               \* history: every word the producer appended, in order

vars == <<vocab, process, parser, lines_read, slots, coordinator, transcription_task, matcher_task,
          audio_buffer, audio_np, word_stream, guessed_countries, text_to_search, match_pos,
          last_match_end_index, snap_base, sent, appended>>

\* A, COUNTRY_NAMES = load_and_build_automaton()
A == load_and_build_automaton(vocab)

\* Mutant of SessionKey: one module-level cell shared by every session.
SessionKeyShared(s) == 1

\* The state a session's storage cell lives under: audio_buffer,
\* guessed_countries and word_stream are locals of one websocket_endpoint call.
SessionKey(s) == s

AppendBound == IF Cardinality(slots) > 1 THEN MaxAppendedMulti ELSE MaxAppended
SpokenWords == IF Cardinality(slots) > 1 THEN WordsMulti ELSE Words

\* The word lists one producer tick can append (all its segments together).
Batches == UNION {[1..n -> SpokenWords] : n \in 0..MaxBatch}

\* Mutant of GuessEvent: the event carries the text that matched.
GuessEventMatchedText(m, base) ==
    [type |-> "guess", country |-> m.pattern,
     pattern |-> m.pattern, at |-> base + m.end_index]

\* {"type": "guess", "country": canonical_name}, with the pattern and the
\* offset of the occurrence it is sent for.
GuessEvent(m, base) ==
    [type |-> "guess", country |-> m.canonical_name,
     pattern |-> m.pattern, at |-> base + m.end_index]

RECURSIVE ScanAdvanceOnNewOnly(_, _, _, _)
\* Mutant of Scan: last_match_end_index is set inside the "if", so that an
\* occurrence of a guessed term does not move it.
ScanAdvanceOnNewOnly(ms, base, st, budget) ==
    IF st.i > Len(ms) THEN [st EXCEPT !.status = "end"]
    ELSE LET m == ms[st.i]
         IN IF NotGuessed(m.canonical_name, st.guessed)
            THEN LET g == st.guessed \cup {m.canonical_name}
                 IN IF budget = 0
                    THEN [st EXCEPT !.guessed = g, !.status = "await"]
                    ELSE ScanAdvanceOnNewOnly(ms, base,
                              [i |-> st.i + 1, guessed |-> g,
                               sent |-> Append(st.sent, GuessEvent(m, base)),
                               last |-> m.end_index + 1, status |-> "run"],
                              budget - 1)
            ELSE ScanAdvanceOnNewOnly(ms, base, [st EXCEPT !.i = st.i + 1], budget)

RECURSIVE Scan(_, _, _, _)
\* The for loop of matcher_loop over ms = A.iter(text_to_search), from
\* position st.i, running until it ends or reaches a send_json that does
\* not complete at once; `budget` sends complete without suspending.
Scan(ms, base, st, budget) ==
    IF st.i > Len(ms) THEN [st EXCEPT !.status = "end"]
    ELSE LET m == ms[st.i]
         IN IF NotGuessed(m.canonical_name, st.guessed)
            THEN LET g == st.guessed \cup {m.canonical_name}
                 IN IF budget = 0
                    THEN [st EXCEPT !.guessed = g, !.status = "await"]
                    ELSE Scan(ms, base,
                              [i |-> st.i + 1, guessed |-> g,
                               sent |-> Append(st.sent, GuessEvent(m, base)),
                               last |-> m.end_index + 1, status |-> "run"],
                              budget - 1)
            ELSE Scan(ms, base,
                      [st EXCEPT !.i = st.i + 1, !.last = m.end_index + 1], budget)

\* Offset of the current buffer in the joined text of all appended words.
BaseOf(app, ws) ==
    LET gone == Len(app) - Len(ws)
    IN IF gone = 0 THEN 0 ELSE Len(Join(SubSeq(app, 1, gone))) + 1

MatcherIdle(s) ==
    /\ text_to_search' = [text_to_search EXCEPT ![s] = <<>>]
    /\ match_pos' = [match_pos EXCEPT ![s] = 0]
    /\ last_match_end_index' = [last_match_end_index EXCEPT ![s] = 0]
    /\ snap_base' = [snap_base EXCEPT ![s] = 0]

\* Mutant of OnMatcherError: the loop goes on to its next iteration.
OnMatcherErrorRetry(status) == "sleep"

\* What the except clauses of matcher_loop do: log, break.
OnMatcherError(status) == "failed"

\* Where a run of the for loop leaves the session: at the sleep after the
\* consume, suspended in send_json, or out of the loop on an exception.
MatcherLands(s, snap, base, r, outcome) ==
    /\ guessed_countries' = [guessed_countries EXCEPT ![SessionKey(s)] = r.guessed]
    /\ sent' = [sent EXCEPT ![s] = r.sent]
    /\ IF r.status = "end"
       THEN /\ word_stream' =
                 [word_stream EXCEPT ![SessionKey(s)] =
                     IF r.last > 0
                     THEN PopLeft(@, NumWordsToRemove(Join(snap), r.last))
                     ELSE @]
            /\ matcher_task' = [matcher_task EXCEPT ![s] = "sleep"]
            /\ MatcherIdle(s)
       ELSE IF outcome = "suspend"
       THEN /\ matcher_task' = [matcher_task EXCEPT ![s] = "send"]
            /\ text_to_search' = [text_to_search EXCEPT ![s] = snap]
            /\ match_pos' = [match_pos EXCEPT ![s] = r.i]
            /\ last_match_end_index' = [last_match_end_index EXCEPT ![s] = r.last]
            /\ snap_base' = [snap_base EXCEPT ![s] = base]
            /\ UNCHANGED word_stream
       ELSE /\ matcher_task' = [matcher_task EXCEPT ![s] = OnMatcherError(@)]
            /\ MatcherIdle(s)
            /\ UNCHANGED word_stream

SendOutcomes == {"suspend", "raise"}
MaxSends == Cardinality({A[p] : p \in DOMAIN A})

(***************************************************************************)
(* matcher_loop                                                            *)
(***************************************************************************)
\* One iteration of the while loop from the wake-up of asyncio.sleep(0.5):
\* snapshot, scan, and (unless a send_json suspends or raises) consume.  When
\* A.iter itself raises, "except Exception" logs and breaks.
MatcherTick(s) ==
    /\ coordinator[s] = "recv"
    /\ matcher_task[s] = "sleep"
    /\ IF IterRaises(A)
       THEN /\ matcher_task' = [matcher_task EXCEPT ![s] = OnMatcherError(@)]
            /\ MatcherIdle(s)
            /\ UNCHANGED <<word_stream, guessed_countries, sent>>
       ELSE LET snap == word_stream[SessionKey(s)]
                base == BaseOf(appended[s], snap)
                ms == Iter(A, Join(snap))
                st == [i |-> 1, guessed |-> guessed_countries[SessionKey(s)],
                       sent |-> sent[s], last |-> 0, status |-> "run"]
            IN \E budget \in 0..MaxSends, outcome \in SendOutcomes :
                  MatcherLands(s, snap, base, Scan(ms, base, st, budget), outcome)
    /\ UNCHANGED <<vocab, process, parser, lines_read, slots, coordinator, transcription_task, audio_buffer,
                   audio_np, appended>>

\* The suspended send_json completes: the event is out, the for loop goes on
\* over the same text_to_search and the consume pops from the deque as it is now.
MatcherResume(s) ==
    /\ coordinator[s] = "recv"
    /\ matcher_task[s] = "send"
    /\ LET snap == text_to_search[s]
           base == snap_base[s]
           ms == Iter(A, Join(snap))
           m == ms[match_pos[s]]
           st == [i |-> match_pos[s] + 1,
                  guessed |-> guessed_countries[SessionKey(s)],
                  sent |-> Append(sent[s], GuessEvent(m, base)),
                  last |-> m.end_index + 1, status |-> "run"]
       IN \E budget \in 0..MaxSends, outcome \in SendOutcomes :
             MatcherLands(s, snap, base, Scan(ms, base, st, budget), outcome)
    /\ UNCHANGED <<vocab, process, parser, lines_read, slots, coordinator, transcription_task, audio_buffer,
                   audio_np, appended>>

\* The suspended send_json raises (ConnectionClosed, WebSocketDisconnect or
\* any other Exception): logged, break.
MatcherSendRaises(s) ==
    /\ coordinator[s] = "recv"
    /\ matcher_task[s] = "send"
    /\ matcher_task' = [matcher_task EXCEPT ![s] = OnMatcherError(@)]
    /\ MatcherIdle(s)
    /\ UNCHANGED <<vocab, process, parser, lines_read, slots, coordinator, transcription_task, audio_buffer,
                   audio_np, word_stream, guessed_countries, sent, appended>>

\* matcher_task.cancel() takes effect at the await the task is suspended in.
MatcherCancelled(s) ==
    /\ coordinator[s] = "gather"
    /\ matcher_task[s] \in {"sleep", "send"}
    /\ matcher_task' = [matcher_task EXCEPT ![s] = "cancelled"]
    /\ MatcherIdle(s)
    /\ UNCHANGED <<vocab, process, parser, lines_read, slots, coordinator, transcription_task, audio_buffer,
                   audio_np, word_stream, guessed_countries, sent, appended>>

(***************************************************************************)
(* transcription_loop                                                      *)
(***************************************************************************)
\* "if not audio_buffer: continue"
TranscriptionSkip(s) ==
    /\ coordinator[s] = "recv"
    /\ transcription_task[s] = "sleep"
    /\ Skips(audio_buffer[SessionKey(s)])
    /\ UNCHANGED vars

\* A tick that transcribes: the audio is drained and the words of every
\* segment are appended.
TranscriptionTick(s) ==
    /\ coordinator[s] = "recv"
    /\ transcription_task[s] = "sleep"
    /\ ~Skips(audio_buffer[SessionKey(s)])
    /\ FromBufferOk(audio_buffer[SessionKey(s)])
    /\ audio_np' = [audio_np EXCEPT ![s] = FromBuffer(audio_buffer[SessionKey(s)])]
    /\ \E new_words \in Batches :
          /\ Len(appended[s]) + Len(new_words) <= AppendBound
          /\ word_stream' = [word_stream EXCEPT ![SessionKey(s)] = Extend(@, new_words)]
          /\ appended' = [appended EXCEPT ![s] = @ \o new_words]
    /\ audio_buffer' = [audio_buffer EXCEPT ![SessionKey(s)] = <<>>]
    /\ UNCHANGED <<vocab, process, parser, lines_read, slots, coordinator, transcription_task, matcher_task,
                   guessed_countries, text_to_search, match_pos,
                   last_match_end_index, snap_base, sent>>

\* What "except Exception" of transcription_loop does: log, break.
OnTranscriptionError(status) == "failed"

\* A tick that raises: in np.frombuffer (the audio is then not drained), in
\* model.transcribe, or while the segments are iterated (the words of the
\* segments before the failing one are already appended).
TranscriptionError(s) ==
    /\ coordinator[s] = "recv"
    /\ transcription_task[s] = "sleep"
    /\ ~Skips(audio_buffer[SessionKey(s)])
    /\ IF FromBufferOk(audio_buffer[SessionKey(s)])
       THEN /\ audio_np' = [audio_np EXCEPT ![s] = FromBuffer(audio_buffer[SessionKey(s)])]
            /\ audio_buffer' = [audio_buffer EXCEPT ![SessionKey(s)] = <<>>]
            /\ \E new_words \in Batches :
                  /\ Len(appended[s]) + Len(new_words) <= AppendBound
                  /\ word_stream' =
                        [word_stream EXCEPT ![SessionKey(s)] = Extend(@, new_words)]
                  /\ appended' = [appended EXCEPT ![s] = @ \o new_words]
       ELSE UNCHANGED <<audio_buffer, audio_np, word_stream, appended>>
    /\ transcription_task' =
          [transcription_task EXCEPT ![s] = OnTranscriptionError(@)]
    /\ UNCHANGED <<vocab, process, parser, lines_read, slots, coordinator, matcher_task, guessed_countries,
                   text_to_search, match_pos, last_match_end_index, snap_base, sent>>

\* transcription_task.cancel(): CancelledError at asyncio.sleep(1.0), break.
TranscriptionCancelled(s) ==
    /\ coordinator[s] = "gather"
    /\ transcription_task[s] = "sleep"
    /\ transcription_task' = [transcription_task EXCEPT ![s] = "cancelled"]
    /\ UNCHANGED <<vocab, process, parser, lines_read, slots, coordinator, matcher_task, audio_buffer, audio_np, word_stream,
                   guessed_countries, text_to_search, match_pos,
                   last_match_end_index, snap_base, sent, appended>>

(***************************************************************************)
(* websocket_endpoint                                                      *)
(***************************************************************************)
\* A client connects to a free slot: fresh buffers, both tasks created.  The
\* first iteration of matcher_loop runs like every later one, so the new
\* matcher task is placed at its sleep.
Accept(s) ==
    /\ process = "serving"
    /\ coordinator[s] \in {"none", "closed"}
    /\ coordinator' = [coordinator EXCEPT ![s] = "recv"]
    /\ transcription_task' = [transcription_task EXCEPT ![s] = "sleep"]
    /\ matcher_task' = [matcher_task EXCEPT ![s] = "sleep"]
    /\ audio_buffer' = [audio_buffer EXCEPT ![SessionKey(s)] = <<>>]
    /\ audio_np' = [audio_np EXCEPT ![s] = <<>>]
    /\ word_stream' = [word_stream EXCEPT ![SessionKey(s)] = <<>>]
    /\ guessed_countries' = [guessed_countries EXCEPT ![SessionKey(s)] = {}]
    /\ sent' = [sent EXCEPT ![s] = <<>>]
    /\ appended' = [appended EXCEPT ![s] = <<>>]
    /\ MatcherIdle(s)
    /\ UNCHANGED <<vocab, process, parser, lines_read, slots>>

\* data = await websocket.receive_bytes(); audio_buffer.extend(data)
ReceiveBytes(s) ==
    /\ coordinator[s] = "recv"
    /\ \E data \in Chunks :
          /\ Len(audio_buffer[SessionKey(s)]) + Len(data) <= MaxAudio
          /\ audio_buffer' = [audio_buffer EXCEPT ![SessionKey(s)] = @ \o data]
    /\ UNCHANGED <<vocab, process, parser, lines_read, slots, coordinator, transcription_task, matcher_task,
                   audio_np, word_stream, guessed_countries, text_to_search, match_pos,
                   last_match_end_index, snap_base, sent, appended>>

\* receive_bytes() raises: the finally block cancels both tasks and awaits
\* asyncio.gather on them.
Disconnect(s) ==
    /\ coordinator[s] = "recv"
    /\ coordinator' = [coordinator EXCEPT ![s] = "gather"]
    /\ UNCHANGED <<vocab, process, parser, lines_read, slots, transcription_task, matcher_task, audio_buffer,
                   audio_np, word_stream, guessed_countries, text_to_search, match_pos,
                   last_match_end_index, snap_base, sent, appended>>

\* Mutant of TaskDone: the endpoint does not wait for the tasks.
TaskDoneNoWait(status) == TRUE

\* What gather waits for: the task has left its loop.
TaskDone(status) == status \in {"failed", "cancelled"}

\* gather returns once both tasks are done; the endpoint returns and the
\* locals of the session (audio_buffer, guessed_countries, word_stream, and
\* audio_np of the finished producer) are released.
GatherReturns(s) ==
    /\ coordinator[s] = "gather"
    /\ TaskDone(transcription_task[s])
    /\ TaskDone(matcher_task[s])
    /\ coordinator' = [coordinator EXCEPT ![s] = "closed"]
    /\ audio_buffer' = [audio_buffer EXCEPT ![SessionKey(s)] = <<>>]
    /\ audio_np' = [audio_np EXCEPT ![s] = <<>>]
    /\ word_stream' = [word_stream EXCEPT ![SessionKey(s)] = <<>>]
    /\ guessed_countries' = [guessed_countries EXCEPT ![SessionKey(s)] = {}]
    /\ UNCHANGED <<vocab, process, parser, lines_read, slots, transcription_task, matcher_task, text_to_search,
                   match_pos, last_match_end_index, snap_base, sent, appended>>

(***************************************************************************)
(* load_and_build_automaton: the read loop                                 *)
(***************************************************************************)
\* One iteration of "for line in f".
ReadLine ==
    /\ process = "loading"
    /\ Len(lines_read) < MaxLines
    /\ \E raw \in Lines :
          /\ parser' = ParseLine(parser, raw)
          /\ lines_read' = Append(lines_read, raw)
    /\ UNCHANGED <<vocab, process, slots, coordinator, transcription_task, matcher_task,
                   audio_buffer, audio_np, word_stream, guessed_countries,
                   text_to_search, match_pos, last_match_end_index, snap_base,
                   sent, appended>>

(***************************************************************************)
(* Specifications                                                          *)
(***************************************************************************)
InitSessions ==
    /\ process = Startup(vocab)
    /\ parser = ParserStart
    /\ lines_read = <<>>
    /\ audio_np = [s \in Sessions |-> <<>>]
    /\ coordinator = [s \in Sessions |-> "none"]
    /\ transcription_task = [s \in Sessions |-> "cancelled"]
    /\ matcher_task = [s \in Sessions |-> "cancelled"]
    /\ audio_buffer = [s \in Sessions |-> <<>>]
    /\ word_stream = [s \in Sessions |-> <<>>]
    /\ guessed_countries = [s \in Sessions |-> {}]
    /\ text_to_search = [s \in Sessions |-> <<>>]
    /\ match_pos = [s \in Sessions |-> 0]
    /\ last_match_end_index = [s \in Sessions |-> 0]
    /\ snap_base = [s \in Sessions |-> 0]
    /\ sent = [s \in Sessions |-> <<>>]
    /\ appended = [s \in Sessions |-> <<>>]

\* One client at a time, the vocabulary without a collision.
Init ==
    /\ vocab = 1
    /\ slots = {1}
    /\ InitSessions

\* One client at a time, the vocabulary in which the alternate "uk" is also
\* listed as a country.
InitShadow ==
    /\ vocab = 2
    /\ slots = {1}
    /\ InitSessions

\* Two clients at once.
InitMulti ==
    /\ vocab = 1
    /\ slots = Sessions
    /\ InitSessions

\* One client at a time, whatever file the process finds at startup.
InitStartup ==
    /\ vocab \in VocabFiles
    /\ slots = {1}
    /\ InitSessions

Next ==
    \/ \E s \in slots : Accept(s)
    \/ \E s \in slots : ReceiveBytes(s)
    \/ \E s \in slots : Disconnect(s)
    \/ \E s \in slots : GatherReturns(s)
    \/ \E s \in slots : TranscriptionSkip(s)
    \/ \E s \in slots : TranscriptionTick(s)
    \/ \E s \in slots : TranscriptionError(s)
    \/ \E s \in slots : TranscriptionCancelled(s)
    \/ \E s \in slots : MatcherTick(s)
    \/ \E s \in slots : MatcherResume(s)
    \/ \E s \in slots : MatcherSendRaises(s)
    \/ \E s \in slots : MatcherCancelled(s)

Spec == Init /\ [][Next]_vars

SpecShadow == InitShadow /\ [][Next]_vars

SpecMulti == InitMulti /\ [][Next]_vars

SpecStartup == InitStartup /\ [][Next]_vars

\* The process in the read loop of its startup, over a file of any lines.
InitParse ==
    /\ vocab = 5
    /\ slots = {1}
    /\ InitSessions

NextParse == ReadLine

SpecParse == InitParse /\ [][NextParse]_vars

\* The event loop runs every task that is ready: a cancelled task gets its
\* CancelledError, and gather resumes once both tasks are done.
Fairness ==
    \A s \in Sessions :
        /\ WF_vars(TranscriptionCancelled(s))
        /\ WF_vars(MatcherCancelled(s))
        /\ WF_vars(GatherReturns(s))

LiveSpec == Init /\ [][Next]_vars /\ Fairness

(***************************************************************************)
(* Properties                                                              *)
(***************************************************************************)
Countries(events) == {events[i].country : i \in 1..Len(events)}

TimesSent(events, c) == Cardinality({i \in 1..Len(events) : events[i].country = c})

\* The last n elements of a sequence (all of it when it is shorter).
LastN(q, n) == SubSeq(q, Len(q) - Min(n, Len(q)) + 1, Len(q))

\* Pattern p occurs somewhere in text.
Occurs(p, text) == \E e \in 0..(Len(text) - 1) : EndsAt(text, p, e)

\* The session is connected and its endpoint is in the receive loop.
Live(s) == coordinator[s] = "recv"

\* C1: in every reachable state the guess events sent in a session name
\* each canonical term at most once, whatever was re-spoken.
C1_EachTermAtMostOnce ==
    \A s \in Sessions :
        \A i, j \in 1..Len(sent[s]) :
            i # j => sent[s][i].country # sent[s][j].country

\* C1 witness: "uk" was spoken, then "united kingdom"; both are consumed
\* and one event was sent.
C1_Witness ==
    \E s \in Sessions :
        /\ appended[s] = <<"uk", "united", "kingdom">>
        /\ word_stream[s] = <<>>
        /\ matcher_task[s] = "sleep"
        /\ Countries(sent[s]) = {"united kingdom"}
        /\ Len(sent[s]) = 1

\* A step of the matcher of live session s that ends at its sleep: the for
\* loop has scanned all of the snapshot and the consume is done.
TickCompletes(s) ==
    /\ Live(s)
    /\ coordinator'[s] = coordinator[s]
    /\ matcher_task[s] \in {"sleep", "send"}
    /\ matcher_task'[s] = "sleep"
    /\ appended'[s] = appended[s]
    /\ audio_buffer'[s] = audio_buffer[s]
    /\ transcription_task'[s] = transcription_task[s]

\* A step in which the matcher of session s pops words (the consume of a tick).
MatcherConsumes(s) ==
    /\ TickCompletes(s)
    /\ Len(word_stream'[s]) < Len(word_stream[s])

\* The snapshot the tick that is running, or about to run, scans.
SnapshotOf(s) ==
    IF matcher_task[s] = "send" THEN text_to_search[s] ELSE word_stream[s]

\* C2 (as claimed): the words a matcher tick removes are exactly the
\* leading words of the snapshot it scanned.
C2_RemovesLeadingSnapshotWords ==
    [][\A s \in Sessions :
          MatcherConsumes(s) =>
              LET k == Len(word_stream[s]) - Len(word_stream'[s])
              IN /\ k <= Len(SnapshotOf(s))
                 /\ SubSeq(word_stream[s], 1, k) = SubSeq(SnapshotOf(s), 1, k)]_vars

\* The words q begin pattern p on a word boundary (q may be all of p).
BeginsPattern(q, p) ==
    /\ q # <<>>
    /\ \/ Join(q) = Spell(p)
       \/ /\ Len(Join(q)) < Len(Spell(p))
          /\ Join(q) \o <<" ">> = SubSeq(Spell(p), 1, Len(Join(q)) + 1)

MultiWord(p) == \E i \in 1..Len(Spell(p)) : Spell(p)[i] = " "

\* C3 (as claimed): a matcher step never removes trailing words of the
\* buffer that begin a multi-word pattern whose term is not reported by the
\* end of that step, so the term is recognized once its words are all there.
C3_KeepsPatternPrefix ==
    [][\A s \in Sessions : \A p \in DOMAIN A : \A n \in 1..Len(word_stream[s]) :
          ( /\ MatcherConsumes(s)
            /\ MultiWord(p)
            /\ BeginsPattern(LastN(word_stream[s], n), p)
            /\ A[p] \notin guessed_countries'[s] )
          => /\ n <= Len(word_stream'[s])
             /\ LastN(word_stream'[s], n) = LastN(word_stream[s], n)]_vars

\* The canonical term the vocabulary file gives pattern p.
TermOf(p) == IF p \in DOMAIN alternates(vocab) THEN alternates(vocab)[p] ELSE p

VocabularyPatterns == country_names(vocab) \cup DOMAIN alternates(vocab)

\* C4 (as claimed): in a live session with the matcher between ticks, a
\* term mentioned in the appended words has had its event sent, or its
\* mention is still in the buffer for the next tick to find.
C4_EveryMentionReported ==
    \A s \in Sessions : \A p \in VocabularyPatterns :
        ( /\ Live(s)
          /\ matcher_task[s] = "sleep"
          /\ Occurs(p, Join(appended[s]))
          /\ TermOf(p) \notin Countries(sent[s]) )
        => Occurs(p, Join(word_stream[s]))

\* C4 (amended): when a matcher tick completes, every country name or alias
\* occurring in the snapshot the tick scanned has had exactly one event sent
\* in the session for the term the vocabulary resolves it to.
C4_ScannedMentionReportedOnce ==
    [][\A s \in Sessions : \A p \in VocabularyPatterns :
          (TickCompletes(s) /\ Occurs(p, Join(SnapshotOf(s))))
          => TimesSent(sent'[s], TermOf(p)) = 1]_vars

\* C4 witness: a term mentioned twice, by alias and by name, in one
\* snapshot, with its single event sent.
C4_Witness ==
    \E s \in Sessions :
        /\ Live(s)
        /\ appended[s] = <<"united", "kingdom", "uk">>
        /\ matcher_task[s] = "sleep"
        /\ word_stream[s] = <<>>
        /\ TimesSent(sent[s], "united kingdom") = 1

\* C5: the buffer never holds more than Capacity words, and as long as the
\* matcher has consumed nothing it holds the newest Capacity appended words.
C5_BoundedNewestWords ==
    \A s \in Sessions :
        /\ Len(word_stream[s]) <= Capacity
        /\ (coordinator[s] \in {"recv", "gather"} /\ guessed_countries[s] = {})
           => word_stream[s] = LastN(appended[s], Capacity)

\* C5 witness: more than Capacity words appended, none consumed, the
\* oldest gone.
C5_Witness ==
    \E s \in Sessions :
        /\ Len(appended[s]) > Capacity
        /\ guessed_countries[s] = {}
        /\ Len(word_stream[s]) = Capacity
        /\ word_stream[s] = LastN(appended[s], Capacity)
        /\ word_stream[s] # SubSeq(appended[s], 1, Capacity)

Terms == {TermOf(p) : p \in VocabularyPatterns}

\* The end offsets, in the joined text, of the mentions of term c.
MentionEnds(c, text) ==
    {e \in 0..(Len(text) - 1) :
        \E p \in VocabularyPatterns : TermOf(p) = c /\ EndsAt(text, p, e)}

FirstMentionEnd(c, text) ==
    CHOOSE e \in MentionEnds(c, text) : \A f \in MentionEnds(c, text) : e <= f

PositionSent(events, c) == CHOOSE i \in 1..Len(events) : events[i].country = c

\* C7 (as claimed): if the first mention of X ends before the first
\* mention of Y in the appended words, X's event is sent before Y's.
C7_FirstMentionOrder ==
    \A s \in Sessions : \A x, y \in Terms :
        LET text == Join(appended[s])
        IN ( /\ MentionEnds(x, text) # {}
             /\ MentionEnds(y, text) # {}
             /\ FirstMentionEnd(x, text) < FirstMentionEnd(y, text)
             /\ y \in Countries(sent[s]) )
           => /\ x \in Countries(sent[s])
              /\ PositionSent(sent[s], x) < PositionSent(sent[s], y)

\* C7 (amended): every event is sent for an occurrence of its pattern in the
\* appended words, and the events of a session, within a tick and across
\* ticks, are in non-decreasing order of the end offsets of those occurrences.
C7_OccurrenceOrder ==
    \A s \in Sessions :
        /\ \A i \in 1..Len(sent[s]) :
              EndsAt(Join(appended[s]), sent[s][i].pattern, sent[s][i].at)
        /\ \A i, j \in 1..Len(sent[s]) :
              i < j => sent[s][i].at <= sent[s][j].at

\* C7 witness: two events of one tick, for "uk" and then "chad".
C7_Witness ==
    \E s \in Sessions :
        /\ appended[s] = <<"uk", "chad">>
        /\ Len(sent[s]) = 2
        /\ sent[s][1].country = "united kingdom"
        /\ sent[s][2].country = "chad"
        /\ sent[s][1].at < sent[s][2].at

\* C8 (as claimed): the producer of a live session keeps running whatever
\* errors its ticks hit; only the cancellation at disconnect stops it.
C8_ProducerKeepsRunning ==
    \A s \in Sessions : Live(s) => transcription_task[s] = "sleep"

\* C9: teardown is over only when both tasks have terminated; from the
\* disconnect on neither task touches the buffer or sends an event; and
\* after a disconnect both tasks terminate and teardown completes.
C9_Teardown ==
    /\ [](\A s \in Sessions :
            coordinator[s] = "closed" =>
                /\ transcription_task[s] \in {"failed", "cancelled"}
                /\ matcher_task[s] \in {"failed", "cancelled"})
    /\ [][\A s \in Sessions :
            ( /\ coordinator[s] \in {"gather", "closed"}
              /\ coordinator'[s] \in {"gather", "closed"} )
            => /\ sent'[s] = sent[s]
               /\ appended'[s] = appended[s]
               /\ coordinator[s] = coordinator'[s] => word_stream'[s] = word_stream[s]]_vars
    /\ \A s \in Sessions :
          (coordinator[s] = "gather") ~>
              ( /\ coordinator[s] = "closed"
                /\ transcription_task[s] \in {"failed", "cancelled"}
                /\ matcher_task[s] \in {"failed", "cancelled"} )

\* C9 witness: a session torn down after an event, both tasks cancelled.
C9_Witness ==
    \E s \in Sessions :
        /\ coordinator[s] = "closed"
        /\ transcription_task[s] = "cancelled"
        /\ matcher_task[s] = "cancelled"
        /\ Len(sent[s]) = 1

SessionState(s) ==
    <<coordinator[s], transcription_task[s], matcher_task[s], audio_buffer[s],
      audio_np[s], word_stream[s], guessed_countries[s], text_to_search[s], match_pos[s],
      last_match_end_index[s], snap_base[s], sent[s], appended[s]>>

\* C10: a step changes the state of at most one session, and a tick of a
\* session reports every term mentioned in its snapshot on that session's
\* own websocket, whatever the other sessions have guessed.
C10_SessionsIsolated ==
    [][\A s \in Sessions :
          SessionState(s)' # SessionState(s) =>
              /\ \A t \in Sessions \ {s} : SessionState(t)' = SessionState(t)
              /\ TickCompletes(s) =>
                    \A p \in VocabularyPatterns :
                        Occurs(p, Join(SnapshotOf(s)))
                            => TermOf(p) \in Countries(sent'[s])]_vars

\* C10 witness: the producer of session 1 has failed, both sessions have
\* reported "chad", and session 2 is still running.
C10_Witness ==
    /\ transcription_task[1] = "failed"
    /\ Countries(sent[1]) = {"chad"}
    /\ Countries(sent[2]) = {"chad"}
    /\ Live(2)
    /\ transcription_task[2] = "sleep"
    /\ matcher_task[2] = "sleep"

\* C11 (as claimed): the build fails fatally when the vocabulary file is
\* missing or unreadable and when the vocabulary it yields is empty, so that
\* no session is ever accepted by a process whose index was built from an
\* empty vocabulary.
C11_EmptyVocabularyNeverServed ==
    /\ FileStatus(vocab) # "ok" => process = "exited"
    /\ \A s \in Sessions :
          coordinator[s] # "none" =>
              /\ FileStatus(vocab) = "ok"
              /\ VocabularyPatterns # {}

\* The words q are a trailing part of the words p.
IsSuffix(q, p) ==
    /\ Len(q) <= Len(p)
    /\ q = SubSeq(p, Len(p) - Len(q) + 1, Len(p))

\* C12: across a step of a live session that starts and ends with no audio
\* accumulated, the producer hands nothing to model.transcribe, appends no
\* word and stays as it is, and the audio buffer stays empty; the word buffer
\* gets no word, and with the matcher stopped the word buffer and the emitted
\* set are unchanged.
C12_EmptyTickDoesNothing ==
    [][\A s \in Sessions :
          ( /\ Live(s)
            /\ coordinator'[s] = "recv"
            /\ audio_buffer[s] = <<>>
            /\ audio_buffer'[s] = <<>> )
          => /\ audio_np'[s] = audio_np[s]
             /\ appended'[s] = appended[s]
             /\ transcription_task'[s] = transcription_task[s]
             /\ IsSuffix(word_stream'[s], word_stream[s])
             /\ matcher_task[s] \notin {"sleep", "send"} =>
                   /\ word_stream'[s] = word_stream[s]
                   /\ guessed_countries'[s] = guessed_countries[s]]_vars

\* C12 witness: a live session whose producer has transcribed once and is
\* at its sleep with no audio accumulated, so that its ticks skip.
C12_Witness ==
    \E s \in Sessions :
        /\ Live(s)
        /\ transcription_task[s] = "sleep"
        /\ audio_buffer[s] = <<>>
        /\ audio_np[s] = <<0>>
        /\ appended[s] = <<"chad">>
        /\ word_stream[s] = <<"chad">>
        /\ ENABLED TranscriptionSkip(s)

\* The end offsets of every occurrence of a vocabulary pattern in text.
OccurrenceEnds(text) ==
    {e \in 0..(Len(text) - 1) : \E p \in DOMAIN A : EndsAt(text, p, e)}

Largest(S) == CHOOSE e \in S : \A f \in S : f <= e

\* The 1-based position, among the words ws, of the word holding the
\* character at offset e of their joined text.
WordAt(ws, e) ==
    CHOOSE k \in 1..Len(ws) :
        /\ e < Len(Join(SubSeq(ws, 1, k)))
        /\ k > 1 => e >= Len(Join(SubSeq(ws, 1, k - 1)))

\* The terms of the occurrences in text.
OccurringTerms(text) ==
    {A[p] : p \in {q \in DOMAIN A : Occurs(q, text)}}

\* C13: a matcher tick that completes pops as many words as there are up to
\* the largest end offset among all occurrences in its snapshot, guessed
\* before or not (fewer only when the buffer holds fewer); a tick whose
\* occurrences are all of terms guessed before sends no event and leaves the
\* snapshot without the words up to that offset.
C13_BoundaryCountsGuessedOccurrences ==
    [][\A s \in Sessions :
          LET snap == SnapshotOf(s)
              ends == OccurrenceEnds(Join(snap))
          IN (TickCompletes(s) /\ ends # {})
             => LET n == WordAt(snap, Largest(ends))
                IN /\ Len(word_stream[s]) - Len(word_stream'[s])
                         = Min(n, Len(word_stream[s]))
                   /\ ( /\ matcher_task[s] = "sleep"
                        /\ OccurringTerms(Join(snap)) \subseteq guessed_countries[s] )
                      => /\ sent'[s] = sent[s]
                         /\ word_stream'[s] = SubSeq(snap, n + 1, Len(snap))]_vars

\* C13 witness: "chad" was reported and consumed, then "kingdom chad" was
\* appended, and a tick that found only the guessed "chad" emptied the buffer
\* without an event.
C13_Witness ==
    \E s \in Sessions :
        /\ Live(s)
        /\ matcher_task[s] = "sleep"
        /\ appended[s] = <<"chad", "kingdom", "chad">>
        /\ word_stream[s] = <<>>
        /\ Len(sent[s]) = 1
        /\ sent[s][1].at = 3

\* Words were appended since the running tick of session s took its snapshot.
AppendedSinceSnapshot(s) ==
    /\ matcher_task[s] = "send"
    /\ snap_base[s] + Len(Join(text_to_search[s])) # Len(Join(appended[s]))

\* C14: when a matcher tick completes and no word was appended since its
\* snapshot, the buffer is the snapshot's words after the word holding the
\* last character of the latest-ending occurrence; a tick whose snapshot
\* holds no occurrence leaves the buffer as it is.
C14_BufferAfterTick ==
    [][\A s \in Sessions :
          LET snap == SnapshotOf(s)
              ends == OccurrenceEnds(Join(snap))
          IN (TickCompletes(s) /\ ~AppendedSinceSnapshot(s))
             => IF ends = {}
                THEN word_stream'[s] = word_stream[s]
                ELSE word_stream'[s] =
                        SubSeq(snap, WordAt(snap, Largest(ends)) + 1, Len(snap))]_vars

\* C14 witness: "chad" reported, and the later word "kingdom" kept.
C14_Witness ==
    \E s \in Sessions :
        /\ Live(s)
        /\ matcher_task[s] = "sleep"
        /\ appended[s] = <<"chad", "kingdom">>
        /\ word_stream[s] = <<"kingdom">>
        /\ Countries(sent[s]) = {"chad"}

\* A step in which the running matcher of live session s leaves its for loop
\* with a term in the emitted set whose event was not sent: the send_json of
\* that event raised.
MatcherSendFails(s) ==
    /\ Live(s)
    /\ coordinator'[s] = "recv"
    /\ matcher_task[s] \in {"sleep", "send"}
    /\ matcher_task'[s] # "send"
    /\ ~(guessed_countries'[s] \subseteq Countries(sent'[s]))

\* C15: a failed send ends the matcher and leaves the producer and the
\* buffer as they are; a matcher that has failed stays failed for the rest of
\* the session and no event is sent after it; the buffer the producer goes on
\* appending to stays within Capacity.
C15_MatcherErrorEndsRecognition ==
    /\ [][\A s \in Sessions :
            MatcherSendFails(s) =>
                /\ matcher_task'[s] = "failed"
                /\ transcription_task'[s] = transcription_task[s]
                /\ appended'[s] = appended[s]
                /\ word_stream'[s] = word_stream[s]]_vars
    /\ [][\A s \in Sessions :
            (matcher_task[s] = "failed" /\ coordinator[s] \in {"recv", "gather"})
            => /\ matcher_task'[s] = "failed"
               /\ sent'[s] = sent[s]
               /\ guessed_countries'[s] \subseteq guessed_countries[s]]_vars
    /\ [](\A s \in Sessions : Len(word_stream[s]) <= Capacity)

\* C15 witness: the send of the event for the first word failed; the
\* session is live, the producer is running and can append, and the buffer
\* holds the Capacity newest words, the first word evicted.
C15_Witness ==
    \E s \in Sessions :
        /\ Live(s)
        /\ matcher_task[s] = "failed"
        /\ transcription_task[s] = "sleep"
        /\ guessed_countries[s] = {"chad"}
        /\ sent[s] = <<>>
        /\ appended[s] = <<"chad", "kingdom", "kingdom">>
        /\ word_stream[s] = <<"kingdom", "kingdom">>

\* A step in which the producer of live session s wakes with audio
\* accumulated: it drains the buffer or leaves its loop.
ProducerTickWithAudio(s) ==
    /\ Live(s)
    /\ coordinator'[s] = "recv"
    /\ transcription_task[s] = "sleep"
    /\ audio_buffer[s] # <<>>
    /\ \/ audio_buffer'[s] = <<>>
       \/ transcription_task'[s] # "sleep"

\* C16 (as claimed): received bytes are added to the buffer in arrival
\* order, whatever the chunking; a producer tick hands every accumulated byte
\* to model.transcribe, in order, and empties the buffer, whatever the number
\* of bytes; and the producer is at its sleep again after a tick that found
\* an odd number of bytes.
C16_EveryByteTranscribedOnce ==
    [][\A s \in Sessions :
          /\ ( /\ Live(s)
               /\ coordinator'[s] = "recv"
               /\ Len(audio_buffer'[s]) > Len(audio_buffer[s]) )
             => SubSeq(audio_buffer'[s], 1, Len(audio_buffer[s])) = audio_buffer[s]
          /\ ProducerTickWithAudio(s)
             => /\ audio_buffer'[s] = <<>>
                /\ Len(audio_np'[s]) = (Len(audio_buffer[s]) + 1) \div 2
                /\ \A k \in 1..(Len(audio_buffer[s]) \div 2) :
                      audio_np'[s][k] =
                          Int16(audio_buffer[s][2 * k - 1], audio_buffer[s][2 * k])
                /\ ~FromBufferOk(audio_buffer[s]) => transcription_task'[s] = "sleep"]_vars

\* The pattern texts that are both a country name and an alternate of
\* another term.
Shadowed ==
    {p \in country_names(vocab) \cap DOMAIN alternates(vocab) :
        alternates(vocab)[p] # p}

Trimmed(l) ==
    LET solid == {i \in 1..Len(l) : l[i] \notin Whitespace}
    IN IF solid = {} THEN <<>>
       ELSE SubSeq(l, CHOOSE i \in solid : \A j \in solid : i <= j,
                      CHOOSE i \in solid : \A j \in solid : j <= i)

ArrowAt(l, k) == k + 1 <= Len(l) /\ l[k] = "-" /\ l[k + 1] = ">"

ContainsArrow(l) == \E k \in 1..Len(l) : ArrowAt(l, k)

FirstArrow(l) ==
    CHOOSE k \in 1..Len(l) : ArrowAt(l, k) /\ \A j \in 1..(k - 1) : ~ArrowAt(l, j)

\* The two sides of the first "->" of a line, trimmed.
AliasOf(l) == Trimmed(SubSeq(Trimmed(l), 1, FirstArrow(Trimmed(l)) - 1))

TargetOf(l) ==
    Trimmed(SubSeq(Trimmed(l), FirstArrow(Trimmed(l)) + 2, Len(Trimmed(l))))

IsHeader(l) == Trimmed(l) \in {CountriesHeader, AlternatesHeader}

\* The header in force at line i of the lines read: the last one before it.
HeaderAbove(i) ==
    LET hs == {j \in 1..(i - 1) : IsHeader(lines_read[j])}
    IN IF hs = {} THEN <<>>
       ELSE Trimmed(lines_read[CHOOSE j \in hs : \A h \in hs : h <= j])

\* The lines read that are neither blank nor a header, under header h.
ContentLinesUnder(h) ==
    {i \in 1..Len(lines_read) :
        /\ Trimmed(lines_read[i]) # <<>>
        /\ ~IsHeader(lines_read[i])
        /\ HeaderAbove(i) = h}

AliasLines ==
    {i \in ContentLinesUnder(AlternatesHeader) : ContainsArrow(lines_read[i])}

\* C18: whatever lines were read, the countries are the non-blank,
\* non-header lines under [COUNTRIES], trimmed; the alternates map the
\* trimmed left side of the first "->" of every line under [ALTERNATES]
\* that has one to its trimmed right side, the last such line for an alias
\* deciding; lines before the first header and lines under [ALTERNATES]
\* without "->" add nothing.
C18_ParseOfAnyLines ==
    /\ parser.country_names =
          {Trimmed(lines_read[i]) : i \in ContentLinesUnder(CountriesHeader)}
    /\ DOMAIN parser.alternates = {AliasOf(lines_read[i]) : i \in AliasLines}
    /\ \A a \in DOMAIN parser.alternates :
          LET mine == {i \in AliasLines : AliasOf(lines_read[i]) = a}
              last == CHOOSE i \in mine : \A j \in mine : j <= i
          IN parser.alternates[a] = TargetOf(lines_read[last])

\* C18 witness: a name before any header, then [ALTERNATES], a padded line
\* "a -> b a" and the line "a->b->a", which replaces it, cut at its first "->".
C18_Witness ==
    /\ Len(lines_read) = 3
    /\ lines_read[1] = <<" ">> \o AlternatesHeader \o <<"\n">>
    /\ lines_read[2] = <<" ", "a", " ", "-", ">", " ", "b", " ", "a", "\n">>
    /\ lines_read[3] = <<"a", "-", ">", "b", "-", ">", "a">>
    /\ parser.country_names = {}
    /\ DOMAIN parser.alternates = {<<"a">>}
    /\ parser.alternates[<<"a">>] = <<"b", "-", ">", "a">>

\* The 1-based index, in the appended words, of the first word of the buffer
\* (one past the last appended word when the buffer is empty).
FirstIndex(s) == Len(appended[s]) - Len(word_stream[s]) + 1

\* The session of slot s is running or being torn down.
InSession(s) == coordinator[s] \in {"recv", "gather"}

\* C19: the buffer of a session is the appended words from some index to
\* the last one, in order; across every step of the session the words
\* appended before stay where they are in the appended sequence and that
\* index does not decrease.
C19_BufferIsWindowOfAppended ==
    /\ [](\A s \in Sessions :
            InSession(s) =>
                /\ FirstIndex(s) >= 1
                /\ word_stream[s] =
                      SubSeq(appended[s], FirstIndex(s), Len(appended[s])))
    /\ [][\A s \in Sessions :
            (InSession(s) /\ coordinator'[s] \in {"recv", "gather"})
            => /\ Len(appended'[s]) >= Len(appended[s])
               /\ SubSeq(appended'[s], 1, Len(appended[s])) = appended[s]
               /\ FirstIndex(s)' >= FirstIndex(s)]_vars

\* C19 witness: "chad" was reported and popped by the matcher, and the
\* buffer holds the two words appended after it.
C19_Witness ==
    \E s \in Sessions :
        /\ Live(s)
        /\ appended[s] = <<"chad", "kingdom", "united">>
        /\ word_stream[s] = <<"kingdom", "united">>
        /\ Countries(sent[s]) = {"chad"}
        /\ matcher_task[s] = "sleep"

\* The terms in the emitted set of session s for which no event was sent.
Unsent(s) == guessed_countries[s] \ Countries(sent[s])

\* C20: during a session the emitted set only grows and holds the term of
\* every event sent; with the matcher at its sleep it is exactly the set of
\* terms sent; otherwise it holds at most one term more, the one whose
\* send_json is in progress, has raised or was cancelled, and the matcher
\* is in that send or has terminated.
C20_EmittedSetMatchesEvents ==
    /\ [][\A s \in Sessions :
            (InSession(s) /\ coordinator'[s] \in {"recv", "gather"})
            => guessed_countries[s] \subseteq guessed_countries'[s]]_vars
    /\ [](\A s \in Sessions :
            InSession(s) =>
                /\ Countries(sent[s]) \subseteq guessed_countries[s]
                /\ matcher_task[s] = "sleep" => Unsent(s) = {}
                /\ matcher_task[s] = "send" => Cardinality(Unsent(s)) = 1
                /\ Cardinality(Unsent(s)) <= 1
                /\ Unsent(s) # {} =>
                      matcher_task[s] \in {"send", "failed", "cancelled"})

\* C20 witness: "chad" was sent, then the send for "united kingdom" failed:
\* the term is in the emitted set without an event and the matcher is over.
C20_Witness ==
    \E s \in Sessions :
        /\ Live(s)
        /\ matcher_task[s] = "failed"
        /\ guessed_countries[s] = {"chad", "united kingdom"}
        /\ Len(sent[s]) = 1
        /\ sent[s][1].country = "chad"

=============================================================================
